---- MODULE Spec2Model ----
(***************************************************************************)
(* Model of synjax's AlignmentCRF facade (alignment_simple.py): its        *)
(* constructor, its operation dispatch and the non-monotone argmax path    *)
(* (_jax_non_monotone_align_callback, _numpy_non_monotone_align).          *)
(*                                                                         *)
(* One batch element is modelled (batch shape ()): every array operation   *)
(* of the source is elementwise over the leading batch axes.  Matrices are *)
(* sequences of rows, indexed from 1 (the source indexes from 0).          *)
(* An optional argument or field is a sequence of length 0 (None) or 1.    *)
(*                                                                         *)
(* Spec is the whole facade: one construction, then any calls.  SpecAlign  *)
(* starts from constructed non-monotone instances whose log-potentials may *)
(* hold an entry larger in magnitude than INF, and calls argmax.           *)
(***************************************************************************)
EXTENDS Integers, Sequences, FiniteSets, TLC

VARIABLES self, ctor, call, result, delegate_calls

vars == <<self, ctor, call, result, delegate_calls>>

(* ------------------------------ bounds -------------------------------- *)

\* Largest number of rows and of columns of a log-potentials matrix, and
\* largest length a caller passes.
MaxN == 2

(* --------------------------- program constants ------------------------ *)

\* synjax._src.constants.INF, the finite masking constant.
INF == 100000

MonotoneOneToMany == "monotone_one_to_many"
MonotoneManyToMany == "monotone_many_to_many"
NonMonotoneOneToOne == "non_monotone_one_to_one"

\* The three tags of the Literal annotation and one tag outside it.
AlignmentTypes ==
  {MonotoneOneToMany, MonotoneManyToMany, NonMonotoneOneToOne, "other"}

None == <<>>
Some(x) == <<x>>

(* ------------------------------ values -------------------------------- *)

Array(data) == [type |-> "array", data |-> data]
Tuple(items) == [type |-> "tuple", data |-> items]
Shape(dims) == [type |-> "shape", data |-> dims]

Return(v) == [kind |-> "return", error |-> "", value |-> v]
Raise(err, msg) == [kind |-> "raise", error |-> err, value |-> Shape(<<msg>>)]

\* What the @typed decorator accepts for a Float[Array, ...] parameter.
IsArray(v) == v.type = "array"

Rows(m) == Len(m)
Cols(m) == Len(m[1])

Matrices(r, c, V) == [1..r -> [1..c -> V]]

RECURSIVE SumSeq(_)
SumSeq(s) == IF s = <<>> THEN 0 ELSE Head(s) + SumSeq(Tail(s))

\* jnp.einsum("...ij,...ij->...", a, b)
Einsum(a, b) ==
  SumSeq([i \in 1..Rows(a) |-> SumSeq([j \in 1..Cols(a) |-> a[i][j] * b[i][j]])])

(* ----------------------- the monotone delegate ------------------------ *)

\* GeneralMonotoneAlignmentCRF(...): the delegate is the record of the
\* arguments it was constructed with.
GeneralMonotoneAlignmentCRF(horizontal, vertical, lengths_rows, lengths_cols) ==
  [log_potentials_horizontal |-> horizontal,
   log_potentials_vertical |-> vertical,
   lengths_rows |-> lengths_rows,
   lengths_cols |-> lengths_cols]

\* The array a delegate operation returns, as a term over the delegate and
\* the arguments of the call.
DelegateResult(dist, op, args) ==
  Array([dist |-> dist, op |-> op, args |-> args])

(* ---------------------------- construction ---------------------------- *)

\* IsDegenerate with > for >=: a square matrix passes.
IsDegenerate_strict(log_potentials, lengths_rows, lengths_cols, alignment_type) ==
  /\ lengths_cols = None
  /\ lengths_rows = None
  /\ alignment_type = MonotoneOneToMany
  /\ Rows(log_potentials) > Cols(log_potentials)

\* Lines 84-86: the condition of the degenerate-distribution error.
IsDegenerate(log_potentials, lengths_rows, lengths_cols, alignment_type) ==
  /\ lengths_cols = None
  /\ lengths_rows = None
  /\ alignment_type = MonotoneOneToMany
  /\ Rows(log_potentials) >= Cols(log_potentials)

\* Lines 90-94: self._lengths.
Lengths(log_potentials, lengths_rows) ==
  IF lengths_rows # None THEN lengths_rows[1] ELSE Cols(log_potentials)

\* Dist with a delegate built for every alignment type.
Dist_always(log_potentials, lengths_rows, lengths_cols, alignment_type) ==
  Some(GeneralMonotoneAlignmentCRF(
         <<log_potentials, log_potentials>>,
         IF alignment_type = MonotoneOneToMany THEN None
         ELSE Some(log_potentials),
         lengths_rows, lengths_cols))

\* Lines 95-106: self._dist.
Dist(log_potentials, lengths_rows, lengths_cols, alignment_type) ==
  IF alignment_type = MonotoneOneToMany
  THEN Some(GeneralMonotoneAlignmentCRF(<<log_potentials, log_potentials>>,
                                        None, lengths_rows, lengths_cols))
  ELSE IF alignment_type = MonotoneManyToMany
  THEN Some(GeneralMonotoneAlignmentCRF(<<log_potentials, log_potentials>>,
                                        Some(log_potentials),
                                        lengths_rows, lengths_cols))
  ELSE None

\* The instance a successful construction produces.
Instance(log_potentials, lengths_rows, lengths_cols, alignment_type) ==
  [log_potentials |-> log_potentials,
   lengths |-> Lengths(log_potentials, lengths_rows),
   dist |-> Dist(log_potentials, lengths_rows, lengths_cols, alignment_type),
   alignment_type |-> alignment_type]

\* BranchError without the square-matrix check.
BranchError_any_shape(log_potentials, lengths_cols, alignment_type) ==
  IF alignment_type \in {MonotoneOneToMany, MonotoneManyToMany} THEN ""
  ELSE IF alignment_type = NonMonotoneOneToOne
  THEN IF lengths_cols # None THEN "only_lengths_rows" ELSE ""
  ELSE "unknown_alignment_type"

\* Lines 105-112: the errors raised after the delegate branch; "" is none.
BranchError(log_potentials, lengths_cols, alignment_type) ==
  IF alignment_type \in {MonotoneOneToMany, MonotoneManyToMany} THEN ""
  ELSE IF alignment_type = NonMonotoneOneToOne
  THEN IF lengths_cols # None THEN "only_lengths_rows"
       ELSE IF Cols(log_potentials) # Rows(log_potentials) THEN "square_matrix"
       ELSE ""
  ELSE "unknown_alignment_type"

\* AlignmentCRF.__init__ with the degenerate-distribution check made after
\* the delegate branch.
AlignmentCRF_checks_late(log_potentials, lengths_rows, lengths_cols, alignment_type) ==
  LET built ==
        IF alignment_type \in {MonotoneOneToMany, MonotoneManyToMany}
        THEN <<[op |-> "__init__",
                dist |-> Dist(log_potentials, lengths_rows, lengths_cols,
                              alignment_type)[1]]>>
        ELSE <<>>
      err == BranchError(log_potentials, lengths_cols, alignment_type)
  IN IF err # ""
     THEN [result |-> Raise("ValueError", err), self |-> None, calls |-> built]
     ELSE IF IsDegenerate(log_potentials, lengths_rows, lengths_cols,
                          alignment_type)
     THEN [result |-> Raise("ValueError", "useless_distribution"),
           self |-> None, calls |-> built]
     ELSE [result |-> Return(Shape(<<>>)),
           self |-> Some(Instance(log_potentials, lengths_rows, lengths_cols,
                                  alignment_type)),
           calls |-> built]

\* AlignmentCRF.__init__: the outcome, the instance if there is one, and the
\* delegate constructions made on the way.
AlignmentCRF(log_potentials, lengths_rows, lengths_cols, alignment_type) ==
  LET built ==
        IF alignment_type \in {MonotoneOneToMany, MonotoneManyToMany}
        THEN <<[op |-> "__init__",
                dist |-> Dist(log_potentials, lengths_rows, lengths_cols,
                              alignment_type)[1]]>>
        ELSE <<>>
      err == BranchError(log_potentials, lengths_cols, alignment_type)
  IN IF IsDegenerate(log_potentials, lengths_rows, lengths_cols, alignment_type)
     THEN [result |-> Raise("ValueError", "useless_distribution"),
           self |-> None, calls |-> <<>>]
     ELSE IF err # ""
     THEN [result |-> Raise("ValueError", err), self |-> None, calls |-> built]
     ELSE [result |-> Return(Shape(<<>>)),
           self |-> Some(Instance(log_potentials, lengths_rows, lengths_cols,
                                  alignment_type)),
           calls |-> built]

(* ----------------------- non-monotone argmax -------------------------- *)

\* The permutations of 1..n, for every n a matrix can have.
PermsOfSize ==
  [n \in 0..MaxN |->
     {p \in [1..n -> 1..n] : \A a, b \in 1..n : p[a] = p[b] => a = b}]

Perms(n) == PermsOfSize[n]

\* The total weight of the assignment row k -> column j[k].
AssignmentWeight(cost, j) == SumSeq([k \in 1..Len(j) |-> cost[k][j[k]]])

\* linear_sum_assignment without maximize=True: the minimum total weight.
linear_sum_assignment_minimize(cost) ==
  LET n == Rows(cost)
      weights == {AssignmentWeight(cost, q) : q \in Perms(n)}
      best == CHOOSE w \in weights : \A v \in weights : w <= v
  IN {<<[k \in 1..n |-> k], j>> :
        j \in {p \in Perms(n) : AssignmentWeight(cost, p) = best}}

\* scipy.optimize.linear_sum_assignment(cost, maximize=True): the pairs
\* (row_ind, col_ind) of maximum total weight; row_ind is sorted.
linear_sum_assignment(cost) ==
  LET n == Rows(cost)
      weights == {AssignmentWeight(cost, q) : q \in Perms(n)}
      best == CHOOSE w \in weights : \A v \in weights : v <= w
  IN {<<[k \in 1..n |-> k], j>> :
        j \in {p \in Perms(n) : AssignmentWeight(cost, p) = best}}

\* Lines 36-38: sum over k of one_hot(i[k]) (outer) one_hot(j[k]).
OneHotSum(n, ij) ==
  [a \in 1..n |-> [b \in 1..n |->
     Cardinality({k \in 1..n : ij[1][k] = a /\ ij[2][k] = b})]]

\* _numpy_non_monotone_align: every matrix the solver's answer can give.
numpy_non_monotone_align(log_potentials) ==
  {OneHotSum(Rows(log_potentials), ij) :
     ij \in linear_sum_assignment(log_potentials)}

\* Lines 47-48: mask[i][j] = (i < lengths) * (j < lengths), indices from 0.
Mask(n, lengths) ==
  [i \in 1..n |-> [j \in 1..n |->
     IF i - 1 < lengths /\ j - 1 < lengths THEN 1 ELSE 0]]

\* Line 50: diag_mask[i][j] = (j >= lengths) * eye(n)[i][j], indices from 0.
DiagMask(n, lengths) ==
  [i \in 1..n |-> [j \in 1..n |->
     IF j - 1 >= lengths /\ i = j THEN 1 ELSE 0]]

\* Lines 49 and 51: the matrix handed to the solver.
MaskedLogPotentials(log_potentials, lengths) ==
  LET n == Cols(log_potentials)
      mask == Mask(n, lengths)
      diag_mask == DiagMask(n, lengths)
      masked == [i \in 1..n |-> [j \in 1..n |->
                   IF mask[i][j] # 0 THEN log_potentials[i][j] ELSE -INF]]
  IN [i \in 1..n |-> [j \in 1..n |->
        IF diag_mask[i][j] # 0 THEN INF ELSE masked[i][j]]]

\* _jax_non_monotone_align_callback returning alignments, not alignments*mask.
jax_non_monotone_align_callback_unmasked(log_potentials, lengths) ==
  numpy_non_monotone_align(MaskedLogPotentials(log_potentials, lengths))

\* _jax_non_monotone_align_callback: every value of alignments*mask.
jax_non_monotone_align_callback(log_potentials, lengths) ==
  LET n == Cols(log_potentials)
      mask == Mask(n, lengths)
  IN {[i \in 1..n |-> [j \in 1..n |-> alignments[i][j] * mask[i][j]]] :
        alignments \in
          numpy_non_monotone_align(MaskedLogPotentials(log_potentials, lengths))}

(* ----------------------------- operations ---------------------------- *)

\* self._dist.<op>(*args): the delegate's answer and the call made.
\* An attribute lookup on None raises AttributeError.
Forward(s, op, args) ==
  IF s.dist = None
  THEN [result |-> Raise("AttributeError", op), calls |-> <<>>]
  ELSE [result |-> Return(DelegateResult(s.dist[1], op, args)),
        calls |-> <<[op |-> op, dist |-> s.dist[1]]>>]

\* raise NotImplementedError(...)
Unsupported(what) ==
  [result |-> Raise("NotImplementedError", what), calls |-> <<>>]

event_shape(s) ==
  [result |-> Return(Shape(<<Rows(s.log_potentials), Cols(s.log_potentials)>>)),
   calls |-> <<>>]

batch_shape(s) == [result |-> Return(Shape(<<>>)), calls |-> <<>>]

sample(s, key, sample_shape, kwargs) ==
  IF s.alignment_type = NonMonotoneOneToOne
  THEN Unsupported("sampling")
  ELSE Forward(s, "sample", <<key, sample_shape, kwargs>>)

normalize_log_probs(s, scores) ==
  IF s.alignment_type = NonMonotoneOneToOne
  THEN Unsupported("normalization")
  ELSE Forward(s, "normalize_log_probs", <<scores>>)

log_prob(s, event, kwargs) ==
  IF s.alignment_type = NonMonotoneOneToOne
  THEN Unsupported("normalized_log_probs")
  ELSE Forward(s, "log_prob", <<event, kwargs>>)

\* unnormalized_log_prob scoring against the length-masked log-potentials.
unnormalized_log_prob_masked(s, event, kwargs) ==
  IF ~IsArray(event)
  THEN [result |-> Raise("TypeError", "event"), calls |-> <<>>]
  ELSE IF s.alignment_type = NonMonotoneOneToOne
  THEN LET n == Cols(s.log_potentials)
           mask == Mask(n, s.lengths)
           masked == [i \in 1..n |-> [j \in 1..n |->
                        s.log_potentials[i][j] * mask[i][j]]]
       IN [result |-> Return(Array(Einsum(event.data, masked))),
           calls |-> <<>>]
  ELSE Forward(s, "unnormalized_log_prob", <<event, kwargs>>)

unnormalized_log_prob(s, event, kwargs) ==
  IF ~IsArray(event)
  THEN [result |-> Raise("TypeError", "event"), calls |-> <<>>]
  ELSE IF s.alignment_type = NonMonotoneOneToOne
  THEN [result |-> Return(Array(Einsum(event.data, s.log_potentials))),
        calls |-> <<>>]
  ELSE Forward(s, "unnormalized_log_prob", <<event, kwargs>>)

log_partition(s, kwargs) ==
  IF s.alignment_type = NonMonotoneOneToOne
  THEN Unsupported("log_partition")
  ELSE Forward(s, "log_partition", <<kwargs>>)

marginals_for_template_variables(s, kwargs) ==
  IF s.alignment_type = NonMonotoneOneToOne
  THEN Unsupported("marginals")
  ELSE Forward(s, "marginals_for_template_variables", <<kwargs>>)

marginals(s, kwargs) ==
  IF s.alignment_type = NonMonotoneOneToOne
  THEN Unsupported("marginals")
  ELSE Forward(s, "marginals", <<kwargs>>)

\* Every outcome of argmax: the solver's choice among equal maxima is open.
argmax(s, kwargs) ==
  IF s.alignment_type = NonMonotoneOneToOne
  THEN {[result |-> Return(Array(alignment)), calls |-> <<>>] :
          alignment \in
            jax_non_monotone_align_callback(s.log_potentials, s.lengths)}
  ELSE {Forward(s, "argmax", <<kwargs>>)}

\* Line 194 binds event to the pair (self.argmax(**kwargs), self).
argmax_and_max(s, kwargs) ==
  {LET event == Tuple(<<a.result.value, s>>)
       score == unnormalized_log_prob(s, event, kwargs)
   IN IF score.result.kind = "raise"
      THEN [result |-> score.result, calls |-> a.calls \o score.calls]
      ELSE [result |-> Return(Tuple(<<event, score.result.value>>)),
            calls |-> a.calls \o score.calls] :
     a \in argmax(s, kwargs)}

top_k(s, k, kwargs) ==
  IF s.alignment_type = NonMonotoneOneToOne
  THEN Unsupported("top_k")
  ELSE Forward(s, "top_k", <<k, kwargs>>)

entropy(s, kwargs) ==
  IF s.alignment_type = NonMonotoneOneToOne
  THEN Unsupported("entropy")
  ELSE Forward(s, "entropy", <<kwargs>>)

cross_entropy(s, other, kwargs) ==
  IF s.alignment_type = NonMonotoneOneToOne
  THEN Unsupported("cross_entropy")
  ELSE Forward(s, "cross_entropy", <<other.dist, kwargs>>)

\* kl_divergence forwarded whatever the alignment type.
kl_divergence_unguarded(s, other, kwargs) ==
  Forward(s, "kl_divergence", <<other.dist, kwargs>>)

kl_divergence(s, other, kwargs) ==
  IF s.alignment_type = NonMonotoneOneToOne
  THEN Unsupported("kl_divergence")
  ELSE Forward(s, "kl_divergence", <<other.dist, kwargs>>)

(* --------------------------- inputs of a call ------------------------- *)

\* Moderate log-potentials.
Potentials == {-1, 2}

\* A log-potential whose magnitude exceeds INF.
Huge == -4 * INF

\* Log-potentials of r rows and c columns: base + step * arange(r*c), laid
\* out row by row.
LogPotentials(r, c) ==
  {[i \in 1..r |-> [j \in 1..c |-> base + step * ((i - 1) * c + (j - 1))]] :
     base \in Potentials, step \in {0, 1}}

OptionalLengths == {None} \cup {Some(l) : l \in 0..MaxN}

\* Events of the shape of the log-potentials: one cell set, all cells set,
\* no cell set.
Events(r, c) ==
  {Array([i \in 1..r |-> [j \in 1..c |-> IF i = a /\ j = b THEN 1 ELSE 0]]) :
     a \in 1..r, b \in 1..c}
  \cup {Array([i \in 1..r |-> [j \in 1..c |-> v]]) : v \in {0, 1}}

EventsOf(s) == Events(Rows(s.log_potentials), Cols(s.log_potentials))

\* The only keyword arguments passed: none.
NoKwargs == None

\* The other operand of cross_entropy and kl_divergence.
Others(s) ==
  {s, Instance(s.log_potentials, None, None, MonotoneManyToMany)}

(* ------------------------------ actions ------------------------------- *)

Init ==
  /\ self = None
  /\ ctor = None
  /\ call = [op |-> "none", args |-> <<>>]
  /\ result = Return(Shape(<<>>))
  /\ delegate_calls = <<>>

\* AlignmentCRF(log_potentials, lengths_rows=, lengths_cols=, alignment_type=)
Construct ==
  /\ ctor = None
  /\ \E r \in 1..MaxN, c \in 1..MaxN :
       \E log_potentials \in LogPotentials(r, c),
          lengths_rows \in OptionalLengths,
          lengths_cols \in OptionalLengths,
          alignment_type \in AlignmentTypes :
         LET out == AlignmentCRF(log_potentials, lengths_rows, lengths_cols,
                                 alignment_type)
         IN /\ ctor' = Some([log_potentials |-> log_potentials,
                             lengths_rows |-> lengths_rows,
                             lengths_cols |-> lengths_cols,
                             alignment_type |-> alignment_type])
            /\ self' = out.self
            /\ call' = [op |-> "__init__", args |-> <<>>]
            /\ result' = out.result
            /\ delegate_calls' = out.calls

\* A method call on the constructed instance: the outcome is recorded, the
\* instance is left as it is.
Called(op, args, out) ==
  /\ call' = [op |-> op, args |-> args]
  /\ result' = out.result
  /\ delegate_calls' = out.calls
  /\ UNCHANGED <<self, ctor>>

EventShape ==
  /\ self # None
  /\ Called("event_shape", <<>>, event_shape(self[1]))

BatchShape ==
  /\ self # None
  /\ Called("batch_shape", <<>>, batch_shape(self[1]))

Sample ==
  /\ self # None
  /\ Called("sample", <<0, Shape(<<>>), NoKwargs>>,
            sample(self[1], 0, Shape(<<>>), NoKwargs))

NormalizeLogProbs ==
  /\ self # None
  /\ Called("normalize_log_probs", <<Array(0)>>,
            normalize_log_probs(self[1], Array(0)))

LogProb ==
  /\ self # None
  /\ \E event \in EventsOf(self[1]) :
       Called("log_prob", <<event, NoKwargs>>,
              log_prob(self[1], event, NoKwargs))

UnnormalizedLogProb ==
  /\ self # None
  /\ \E event \in EventsOf(self[1]) :
       Called("unnormalized_log_prob", <<event, NoKwargs>>,
              unnormalized_log_prob(self[1], event, NoKwargs))

LogPartition ==
  /\ self # None
  /\ Called("log_partition", <<NoKwargs>>, log_partition(self[1], NoKwargs))

MarginalsForTemplateVariables ==
  /\ self # None
  /\ Called("marginals_for_template_variables", <<NoKwargs>>,
            marginals_for_template_variables(self[1], NoKwargs))

Marginals ==
  /\ self # None
  /\ Called("marginals", <<NoKwargs>>, marginals(self[1], NoKwargs))

Argmax ==
  /\ self # None
  /\ \E out \in argmax(self[1], NoKwargs) :
       Called("argmax", <<NoKwargs>>, out)

ArgmaxAndMax ==
  /\ self # None
  /\ \E out \in argmax_and_max(self[1], NoKwargs) :
       Called("argmax_and_max", <<NoKwargs>>, out)

TopK ==
  /\ self # None
  /\ Called("top_k", <<1, NoKwargs>>, top_k(self[1], 1, NoKwargs))

Entropy ==
  /\ self # None
  /\ Called("entropy", <<NoKwargs>>, entropy(self[1], NoKwargs))

CrossEntropy ==
  /\ self # None
  /\ \E other \in Others(self[1]) :
       Called("cross_entropy", <<other, NoKwargs>>,
              cross_entropy(self[1], other, NoKwargs))

KlDivergence ==
  /\ self # None
  /\ \E other \in Others(self[1]) :
       Called("kl_divergence", <<other, NoKwargs>>,
              kl_divergence(self[1], other, NoKwargs))

Next ==
  \/ Construct
  \/ EventShape
  \/ BatchShape
  \/ Sample
  \/ NormalizeLogProbs
  \/ LogProb
  \/ UnnormalizedLogProb
  \/ LogPartition
  \/ MarginalsForTemplateVariables
  \/ Marginals
  \/ Argmax
  \/ ArgmaxAndMax
  \/ TopK
  \/ Entropy
  \/ CrossEntropy
  \/ KlDivergence

Spec == Init /\ [][Next]_vars

(* -------- the non-monotone argmax over wide-ranging potentials -------- *)

\* Square log-potentials that may hold one entry of magnitude beyond INF.
WideLogPotentials(n) ==
  {m \in Matrices(n, n, Potentials \cup {Huge}) :
     Cardinality({c \in (1..n) \X (1..n) : m[c[1]][c[2]] = Huge}) <= 1}

\* The state after a successful non-monotone construction.
InitAlign ==
  \E n \in 1..MaxN :
    \E log_potentials \in WideLogPotentials(n), l \in 0..n :
      LET out == AlignmentCRF(log_potentials, Some(l), None,
                              NonMonotoneOneToOne)
      IN /\ ctor = Some([log_potentials |-> log_potentials,
                         lengths_rows |-> Some(l),
                         lengths_cols |-> None,
                         alignment_type |-> NonMonotoneOneToOne])
         /\ self = out.self
         /\ call = [op |-> "__init__", args |-> <<>>]
         /\ result = out.result
         /\ delegate_calls = out.calls

NextAlign == Argmax

SpecAlign == InitAlign /\ [][NextAlign]_vars

(* ============================== claims ================================ *)

Constructed == self # None
Args == ctor[1]
IsNonMonotone == Constructed /\ self[1].alignment_type = NonMonotoneOneToOne
IsMonotone == Constructed /\ self[1].alignment_type # NonMonotoneOneToOne
ConstructionFailed ==
  /\ self = None
  /\ result.kind = "raise"
  /\ result.error = "ValueError"

\* C1 (as stated): argmax_and_max() returns the pair
\* (argmax(), unnormalized_log_prob(argmax())) on every constructed instance.
C1_ArgmaxAndMaxIsPair ==
  (Constructed /\ call.op = "argmax_and_max") =>
    /\ result.kind = "return"
    /\ result.value.type = "tuple"
    /\ \E a \in argmax(self[1], NoKwargs) :
         result.value.data =
           <<a.result.value,
             unnormalized_log_prob(self[1], a.result.value,
                                   NoKwargs).result.value>>

(* ---- C2, C10: the alignment argmax returns without a delegate ---- *)

\* The declared length of a non-monotone instance lies in [0, n].
LengthInRange ==
  /\ IsNonMonotone
  /\ self[1].lengths \in 0..Cols(self[1].log_potentials)

NonMonotoneArgmaxReturned ==
  /\ LengthInRange
  /\ call.op = "argmax"
  /\ result.kind = "return"

\* alignment is a permutation matrix of the leading l x l block and is 0
\* everywhere else.
IsPermutationOfLength(alignment, l) ==
  LET n == Rows(alignment)
  IN /\ \A i, j \in 1..n : alignment[i][j] \in {0, 1}
     /\ \A i \in 1..l : Cardinality({j \in 1..l : alignment[i][j] = 1}) = 1
     /\ \A j \in 1..l : Cardinality({i \in 1..l : alignment[i][j] = 1}) = 1
     /\ \A i, j \in 1..n : (i > l \/ j > l) => alignment[i][j] = 0

\* The partial matchings of an n x n matrix: p[i] is the column matched to
\* row i, 0 for an unmatched row.
PartialMatchings ==
  [n \in 0..MaxN |->
     {q \in [1..n -> 0..n] :
        \A a, b \in 1..n : (q[a] # 0 /\ q[a] = q[b]) => a = b}]

\* The sums of log-potentials over the cells of a partial matching.
AchievableSums(log_potentials) ==
  LET n == Rows(log_potentials)
  IN {SumSeq([i \in 1..n |-> IF p[i] = 0 THEN 0 ELSE log_potentials[i][p[i]]]) :
        p \in PartialMatchings[n]}

\* INF exceeds in magnitude every achievable sum of log-potentials.
InfExceedsSums(log_potentials) ==
  \A t \in AchievableSums(log_potentials) : t < INF /\ -t < INF

BlockPermutations(n, l) ==
  {[i \in 1..n |-> [j \in 1..n |->
      IF i <= l /\ j <= l /\ p[i] = j THEN 1 ELSE 0]] : p \in Perms(l)}

\* The sum of the log-potentials of the cells an alignment selects.
Score(alignment, log_potentials) ==
  LET n == Rows(alignment)
      cells == {c \in (1..n) \X (1..n) : alignment[c[1]][c[2]] # 0}
      RECURSIVE Total(_)
      Total(cs) ==
        IF cs = {} THEN 0
        ELSE LET c == CHOOSE x \in cs : TRUE
             IN log_potentials[c[1]][c[2]] + Total(cs \ {c})
  IN Total(cells)

ConstructorReturned == ctor # None /\ call.op = "__init__"

OneToManyWithoutLengths ==
  /\ ConstructorReturned
  /\ Args.alignment_type = MonotoneOneToMany
  /\ Args.lengths_rows = None
  /\ Args.lengths_cols = None

\* C3 (as stated): monotone-one-to-many construction without lengths fails
\* with a ValueError whenever rows <= cols.
C3_FailsWhenRowsAtMostCols ==
  (OneToManyWithoutLengths
     /\ Rows(Args.log_potentials) <= Cols(Args.log_potentials)) =>
    ConstructionFailed

\* C3 (amended): monotone-one-to-many construction without lengths fails
\* with a ValueError, and produces no instance, whenever rows >= cols.
C3_FailsWhenRowsAtLeastCols ==
  (OneToManyWithoutLengths
     /\ Rows(Args.log_potentials) >= Cols(Args.log_potentials)) =>
    ConstructionFailed

\* A 2 x 1 one-to-many construction without lengths has failed.
C3_Witness ==
  /\ OneToManyWithoutLengths
  /\ Rows(Args.log_potentials) = 2
  /\ Cols(Args.log_potentials) = 1
  /\ ConstructionFailed

\* C4: monotone-one-to-many construction without lengths and with
\* rows >= cols fails with the degenerate-distribution error, raised before
\* any delegate is built.
C4_DegenerateBeforeDelegate ==
  (OneToManyWithoutLengths
     /\ Rows(Args.log_potentials) >= Cols(Args.log_potentials)) =>
    /\ result = Raise("ValueError", "useless_distribution")
    /\ self = None
    /\ delegate_calls = <<>>

\* A square one-to-many construction without lengths has failed with the
\* degenerate-distribution error.
C4_Witness ==
  /\ OneToManyWithoutLengths
  /\ Rows(Args.log_potentials) = Cols(Args.log_potentials)
  /\ result = Raise("ValueError", "useless_distribution")
  /\ delegate_calls = <<>>

\* C5: non-monotone construction fails with a ValueError whenever
\* column-lengths are supplied or the matrix is not square, and succeeds for
\* every square matrix without column-lengths, with or without row-lengths.
C5_NonMonotoneConstruction ==
  (ConstructorReturned /\ Args.alignment_type = NonMonotoneOneToOne) =>
    IF Args.lengths_cols # None
       \/ Rows(Args.log_potentials) # Cols(Args.log_potentials)
    THEN ConstructionFailed
    ELSE /\ result.kind = "return"
         /\ Constructed
         /\ self[1].alignment_type = NonMonotoneOneToOne

\* A square non-monotone construction with row-lengths has succeeded.
C5_Witness ==
  /\ ConstructorReturned
  /\ Args.alignment_type = NonMonotoneOneToOne
  /\ Args.lengths_rows # None
  /\ Rows(Args.log_potentials) = 2
  /\ result.kind = "return"
  /\ Constructed

(* ------------------- C6, C7: dispatch and the fields ------------------ *)

UnsupportedOperations ==
  {"sample", "normalize_log_probs", "log_prob", "log_partition", "marginals",
   "marginals_for_template_variables", "top_k", "entropy", "cross_entropy",
   "kl_divergence"}

SupportedOperations ==
  {"event_shape", "batch_shape", "unnormalized_log_prob", "argmax",
   "argmax_and_max"}

IsUnsupportedError ==
  result.kind = "raise" /\ result.error = "NotImplementedError"

\* The instance is the one the constructor built from its arguments.
InstanceAsConstructed ==
  self = Some(Instance(Args.log_potentials, Args.lengths_rows,
                       Args.lengths_cols, Args.alignment_type))

\* C6: on a non-monotone instance each of the ten distributional queries
\* raises NotImplementedError, calls no delegate and leaves the instance as
\* constructed; the other five operations are not rejected as unsupported.
C6_NonMonotoneUnsupported ==
  IsNonMonotone =>
    /\ call.op \in UnsupportedOperations =>
         /\ IsUnsupportedError
         /\ delegate_calls = <<>>
         /\ InstanceAsConstructed
    /\ call.op \in SupportedOperations => ~IsUnsupportedError

\* kl_divergence with a monotone other operand has been rejected on a
\* non-monotone instance.
C6_Witness ==
  /\ IsNonMonotone
  /\ call.op = "kl_divergence"
  /\ call.args[1].alignment_type = MonotoneManyToMany
  /\ IsUnsupportedError

\* C7: on every constructed instance, after any operations, the delegate is
\* populated iff the alignment type is not non-monotone-one-to-one, the
\* fields are the values fixed at construction, and no step changes them.
C7_FieldsFixed ==
  /\ [](Constructed =>
          /\ self[1].dist # None
               <=> self[1].alignment_type # NonMonotoneOneToOne
          /\ self[1].log_potentials = Args.log_potentials
          /\ self[1].alignment_type = Args.alignment_type
          /\ self[1].lengths =
               (IF Args.lengths_rows # None THEN Args.lengths_rows[1]
                ELSE Cols(Args.log_potentials))
          /\ self[1].dist # None =>
               /\ self[1].dist[1].lengths_rows = Args.lengths_rows
               /\ self[1].dist[1].lengths_cols = Args.lengths_cols)
  /\ [][Constructed => self' = self]_vars

\* A failing operation (argmax_and_max) has run on a many-to-many instance
\* that still holds its delegate.
C7_Witness ==
  /\ IsMonotone
  /\ self[1].alignment_type = MonotoneManyToMany
  /\ call.op = "argmax_and_max"
  /\ result.kind = "raise"
  /\ self[1].dist # None

(* ------------------------ C8: the direct score ------------------------ *)

\* C8: on a non-monotone instance unnormalized_log_prob(event) is the sum
\* over all cells of event[i,j] * log_potentials[i,j], with the
\* log-potentials given at construction, whatever the declared length.
C8_ScoreUsesOriginalPotentials ==
  (IsNonMonotone /\ call.op = "unnormalized_log_prob") =>
    LET event == call.args[1].data
        n == Rows(event)
    IN result =
         Return(Array(SumSeq([k \in 1..(n * n) |->
           event[((k - 1) \div n) + 1][((k - 1) % n) + 1]
             * Args.log_potentials[((k - 1) \div n) + 1][((k - 1) % n) + 1]])))

\* The score of an event whose only cell lies beyond the declared length
\* is that cell's log-potential.
C8_Witness ==
  /\ IsNonMonotone
  /\ call.op = "unnormalized_log_prob"
  /\ self[1].lengths = 1
  /\ self[1].log_potentials = <<(<<2, 3>>), (<<4, 5>>)>>
  /\ call.args[1].data = <<(<<0, 0>>), (<<0, 1>>)>>
  /\ result = Return(Array(5))

(* --------------------------- C9: forwarding --------------------------- *)

\* The delegate the facade is to hold for the constructor's arguments.
PrescribedDelegate ==
  GeneralMonotoneAlignmentCRF(
    <<Args.log_potentials, Args.log_potentials>>,
    IF Args.alignment_type = MonotoneManyToMany
    THEN Some(Args.log_potentials) ELSE None,
    Args.lengths_rows, Args.lengths_cols)

\* The arguments the delegate is to receive for a facade call.
PrescribedArguments ==
  IF call.op \in {"cross_entropy", "kl_divergence"}
  THEN <<call.args[1].dist, call.args[2]>>
  ELSE call.args

\* argmax_and_max called on the delegate itself.
DelegateArgmaxAndMax(dist, kwargs) ==
  LET event == DelegateResult(dist, "argmax", <<kwargs>>)
  IN Tuple(<<event,
             DelegateResult(dist, "unnormalized_log_prob", <<event, kwargs>>)>>)

FacadeOperations == UnsupportedOperations \cup
  {"unnormalized_log_prob", "argmax", "argmax_and_max"}

\* C9 (as stated): on a monotone instance every facade operation returns
\* what the same operation returns on the prescribed delegate.
C9_ForwardsToDelegate ==
  (IsMonotone /\ call.op \in FacadeOperations) =>
    /\ result.kind = "return"
    /\ IF call.op = "argmax_and_max"
       THEN result.value = DelegateArgmaxAndMax(PrescribedDelegate, call.args[1])
       ELSE result.value =
              DelegateResult(PrescribedDelegate, call.op, PrescribedArguments)

\* C9 without argmax_and_max: the twelve forwarded operations.
C9_ForwardsAllButArgmaxAndMax ==
  (IsMonotone /\ call.op \in FacadeOperations \ {"argmax_and_max"}) =>
    /\ result.kind = "return"
    /\ result.value =
         DelegateResult(PrescribedDelegate, call.op, PrescribedArguments)

====
